---- MODULE Spec2Model ----
(***************************************************************************)
(* A model of rss.py: the entry filter get_recent_entries, the HTML        *)
(* cleaner, the keyword loader and the orchestrator process_rss_file.      *)
(*                                                                         *)
(* Texts are sequences of tokens (a character, a markup tag or an entity). *)
(* An optional field (a key a feedparser entry may lack, a file that may   *)
(* not exist) is a set with at most one element: {} is "absent".           *)
(*                                                                         *)
(* Two specifications share the module:                                    *)
(*   FilterSpec  draws a feed, a start time and a keyword list and applies *)
(*               get_recent_entries to them;                               *)
(*   Spec        is one run of process_rss_file, one step per URL line.    *)
(***************************************************************************)
EXTENDS Integers, Sequences, FiniteSets, TLC

\* ------------------------------------------------------------------ bounds
MaxEntries == 2
MaxKeywords == 2
MaxStamp == 1
MaxUrls == 2
DayLen == 2

\* ------------------------------------------------------- optional values
Has(opt) == opt # {}
Val(opt) == CHOOSE v \in opt : TRUE
Opt(S) == {{}} \cup {{v} : v \in S}

SeqsUpTo(S, n) == UNION {[1..k -> S] : k \in 0..n}

\* ------------------------------------------------------------------ texts
TagTokens == {"<p>", "</p>"}
TitleSet == {<<"a">>, <<"b">>}
SummarySet == {<<"<p>", "a", "&amp;", "</p>">>, <<"b">>}
LinkSet == {<<"l">>}
\* keyword patterns: a literal, and one that is no valid regular expression
KeywordSet == {<<"a">>, <<"(">>}
NoSummary == <<"No summary available">>

\* html.unescape on one token
unescape(tok) == IF tok = "&amp;" THEN "&" ELSE tok

\* BeautifulSoup(raw_html, "html.parser").get_text(), then unescape
RECURSIVE clean_html(_)
clean_html(raw_html) ==
    IF raw_html = <<>> THEN <<>>
    ELSE IF Head(raw_html) \in TagTokens THEN clean_html(Tail(raw_html))
    ELSE <<unescape(Head(raw_html))>> \o clean_html(Tail(raw_html))

\* re.compile accepts the pattern
ValidPattern(keyword) == \A i \in 1..Len(keyword) : keyword[i] # "("

\* an unanchored, case-sensitive search of a literal pattern
Occurs(keyword, content) ==
    \E i \in 0..(Len(content) - Len(keyword)) :
        SubSeq(content, i + 1, i + Len(keyword)) = keyword

\* any(re.search(keyword, entry_content) for keyword in keywords): the
\* generator stops at the first match, and re.search raises on a bad pattern
RECURSIVE AnyMatch(_, _)
AnyMatch(keywords, entry_content) ==
    IF keywords = <<>> THEN "nomatch"
    ELSE IF ~ValidPattern(Head(keywords)) THEN "error"
    ELSE IF Occurs(Head(keywords), entry_content) THEN "match"
    ELSE AnyMatch(Tail(keywords), entry_content)

\* --------------------------------------------------------- feeds, entries
\* the entries the filter is applied to on its own: title, summary and publish
\* time may each be missing (an entry without link is among the feeds of Web)
EntrySet ==
    [title : Opt(TitleSet), summary : Opt(SummarySet), link : {{l} : l \in LinkSet},
     published_parsed : Opt(0..MaxStamp)]
FeedSet == SeqsUpTo(EntrySet, MaxEntries)
KeywordLists == SeqsUpTo(KeywordSet, MaxKeywords)

\* ------------------------------------------------------ get_recent_entries
Returned(recent_entries) == [raised |-> "", entries |-> recent_entries]
\* an exception leaves get_recent_entries: the list built so far is lost
Raised_partial(error, recent_entries) == [raised |-> "", entries |-> recent_entries]
Raised(error, recent_entries) == [raised |-> error, entries |-> <<>>]

HasTimestamp(entry) == Has(entry.published_parsed)
IsRecent(pub_date, start_time) == pub_date >= start_time

\* the two tests an entry passes before its text is looked at
IsCandidate_undated(entry, start_time) ==
    ~HasTimestamp(entry) \/ IsRecent(Val(entry.published_parsed), start_time)
IsCandidate(entry, start_time) ==
    HasTimestamp(entry) /\ IsRecent(Val(entry.published_parsed), start_time)

RECURSIVE Scan(_, _, _, _, _)
Scan(entries, i, start_time, keywords, recent_entries) ==
    IF i > Len(entries) THEN Returned(recent_entries)
    ELSE LET entry == entries[i] IN
      IF ~IsCandidate(entry, start_time)
        THEN Scan(entries, i + 1, start_time, keywords, recent_entries)
      \* entry.title + " " + entry.summary: a missing attribute raises
      ELSE IF ~Has(entry.title) \/ ~Has(entry.summary)
        THEN Raised("AttributeError", recent_entries)
      ELSE LET entry_content == Val(entry.title) \o <<" ">> \o Val(entry.summary)
               m == AnyMatch(keywords, entry_content)
           IN IF m = "error" THEN Raised("re.error", recent_entries)
              ELSE IF m = "nomatch"
                THEN Scan(entries, i + 1, start_time, keywords, recent_entries)
              ELSE LET summary == IF Has(entry.summary) THEN Val(entry.summary)
                                  ELSE NoSummary
                   IN IF ~Has(entry.link)
                        THEN Raised("AttributeError", recent_entries)
                      ELSE Scan(entries, i + 1, start_time, keywords,
                                Append(recent_entries,
                                       <<Val(entry.title), Val(entry.link),
                                         clean_html(summary)>>))

get_recent_entries(feed, start_time, keywords) ==
    Scan(feed, 1, start_time, keywords, <<>>)

\* --------------------------------------------------------------- variables
VARIABLES
    fFeed, fStart, fKeywords, fResult,     \* one call of get_recent_entries
    pc, rssFile, kwFile, clock, outFile,   \* one run of process_rss_file;
                                           \* clock is the system's time
    kwList, yesterday_midnight, now, idx, log, printed, kwReads

filterVars == <<fFeed, fStart, fKeywords, fResult>>
runVars == <<pc, rssFile, kwFile, clock, outFile, kwList, yesterday_midnight,
             now, idx, log, printed, kwReads>>
vars == <<filterVars, runVars>>

\* the run's variables while only the filter is exercised
RunIdle ==
    /\ pc = "idle" /\ rssFile = {} /\ kwFile = {} /\ clock = 0 /\ outFile = {}
    /\ kwList = <<>> /\ yesterday_midnight = 0 /\ now = 0 /\ idx = 0
    /\ log = <<>> /\ printed = <<>> /\ kwReads = 0

\* the filter's variables while a run is exercised
FilterIdle ==
    /\ fFeed = <<>> /\ fStart = 0 /\ fKeywords = <<>> /\ fResult = {}

\* ------------------------------------------- FilterSpec: get_recent_entries
FilterInit ==
    /\ fFeed \in FeedSet
    /\ fStart \in 0..MaxStamp
    /\ fKeywords \in KeywordLists
    /\ fResult = {}
    /\ RunIdle

ApplyFilter ==
    /\ fResult = {}
    /\ fResult' = {get_recent_entries(fFeed, fStart, fKeywords)}
    /\ UNCHANGED <<fFeed, fStart, fKeywords, runVars>>

FilterNext == ApplyFilter
FilterSpec == FilterInit /\ [][FilterNext]_vars

\* ------------------------------------------------- the files and the network
Whitespace == {" ", "\n"}

\* str.strip()
RECURSIVE lstrip(_)
lstrip(text) ==
    IF text # <<>> /\ Head(text) \in Whitespace THEN lstrip(Tail(text)) ELSE text
RECURSIVE rstrip(_)
rstrip(text) ==
    IF text # <<>> /\ text[Len(text)] \in Whitespace
    THEN rstrip(SubSeq(text, 1, Len(text) - 1)) ELSE text
strip(text) == rstrip(lstrip(text))

UrlSet ==
    {<<"u404">>, <<"udown">>, <<"uempty">>, <<"unews">>, <<"uold">>,
     <<"ufuture">>, <<"unosum">>, <<"unodate">>, <<"unolink">>}
\* a line of the URL list: a URL or nothing, then the line break
UrlLineSet == {u \o <<"\n">> : u \in UrlSet \cup {<<>>}}
KeywordLineSet == {k \o <<"\n">> : k \in KeywordSet}

\* a file that exists: whether open() succeeds, and its lines
FileSet(LineSet, n) ==
    {[readable |-> FALSE, lines |-> <<>>]}
        \cup [readable : {TRUE}, lines : SeqsUpTo(LineSet, n)]

Entry(title, summary, link, published_parsed) ==
    [title |-> title, summary |-> summary, link |-> link,
     published_parsed |-> published_parsed]
MatchingEntry(t) == Entry({<<"a">>}, {<<"<p>", "a", "&amp;", "</p>">>}, {<<"l">>}, {t})
OtherEntry(t) == Entry({<<"b">>}, {<<"b">>}, {<<"l">>}, {t})

\* what each URL answers to a GET: a status and a body (the feed it parses
\* to), or no answer at all
Answer(status, content) == [answered |-> TRUE, status_code |-> status, content |-> content]
NoAnswer == [answered |-> FALSE, status_code |-> 0, content |-> <<>>]
Web(url) ==
    CASE url = <<"u404">> -> Answer(404, <<>>)
      [] url = <<"uempty">> -> Answer(200, <<>>)
      [] url = <<"unews">> ->
            Answer(200, <<MatchingEntry(DayLen), OtherEntry(2 * DayLen),
                          MatchingEntry(2 * DayLen)>>)
      [] url = <<"uold">> ->
            Answer(200, <<MatchingEntry(DayLen - 1), OtherEntry(3 * DayLen)>>)
      [] url = <<"ufuture">> -> Answer(200, <<MatchingEntry(4 * DayLen)>>)
      [] url = <<"unosum">> ->
            Answer(200, <<MatchingEntry(2 * DayLen),
                          Entry({<<"a">>}, {}, {<<"l">>}, {2 * DayLen})>>)
      [] url = <<"unodate">> ->
            Answer(200, <<Entry({<<"a">>}, {<<"b">>}, {<<"l">>}, {}),
                          Entry({<<"a">>}, {}, {}, {})>>)
      [] url = <<"unolink">> ->
            Answer(200, <<Entry({<<"a">>}, {<<"b">>}, {}, {2 * DayLen})>>)
      [] OTHER -> NoAnswer

\* --------------------------------------------------------------- get_rss_feed
Fetched(feed) == [raised |-> "", feed |-> {feed}]
FetchFailed(error) == [raised |-> error, feed |-> {}]

get_rss_feed(url) ==
    LET response == Web(url) IN
    IF ~response.answered THEN FetchFailed("RequestException")
    ELSE IF response.status_code = 200 THEN Fetched(response.content)
    ELSE FetchFailed("Falha ao obter feed RSS")

\* -------------------------------------------------------------- read_keywords
\* os.path.isfile
isfile_unchecked(file) == TRUE
isfile(file) == Has(file)

\* open(filename, 'r') succeeds; otherwise it raises IOError
CanOpen(file) == Has(file) /\ Val(file).readable

read_keywords(file) ==
    IF ~isfile(file)
      THEN [keywords |-> <<>>, printed |-> <<"keyword file not found">>]
    ELSE IF ~CanOpen(file)
      THEN [keywords |-> <<>>, printed |-> <<"keyword file read error">>]
    ELSE [keywords |-> [i \in 1..Len(Val(file).lines) |-> strip(Val(file).lines[i])],
          printed |-> <<>>]

\* ------------------------------------------------------------ the report file
Line(label, text) == [label |-> label, text |-> text]
OldReport == <<Line("Resenha de uma execucao anterior", <<>>)>>
Header == <<Line("Resenha diaria do dia", <<>>), Line("", <<>>)>>

RECURSIVE EntryLines(_)
EntryLines(recent_entries) ==
    IF recent_entries = <<>> THEN <<>>
    ELSE LET e == Head(recent_entries) IN
         <<Line("Titulo: ", e[1]), Line("Link: ", e[2]), Line("Resumo: ", e[3]),
           Line("", <<>>)>> \o EntryLines(Tail(recent_entries))

\* if recent_entries:
ShouldWrite_always(recent_entries) == TRUE
ShouldWrite(recent_entries) == recent_entries # <<>>

Block(url, recent_entries) ==
    IF ShouldWrite(recent_entries)
    THEN <<Line("URL: ", url)>> \o EntryLines(recent_entries)
    ELSE <<>>

\* ----------------------------------------------------------- process_rss_file
\* if not keywords: ... return
NoKeywords_never(keywords) == FALSE
NoKeywords(keywords) == keywords = <<>>

Midnight(t) == t - (t % DayLen)
YesterdayMidnight(t) == Midnight(t) - DayLen

\* where the loop goes after a URL whose fetch or filter raised: the except
\* clause is inside the loop
AfterUrl_abort(raised) == "done"
AfterUrl(raised) == "loop"

Init ==
    /\ FilterIdle
    /\ pc = "start"
    /\ rssFile \in Opt(FileSet(UrlLineSet, MaxUrls))
    /\ kwFile \in Opt(FileSet(KeywordLineSet, MaxKeywords))
    /\ clock \in (2 * DayLen)..(4 * DayLen - 1)
    /\ outFile \in {{}, {OldReport}}
    /\ kwList = <<>> /\ yesterday_midnight = 0 /\ now = 0
    /\ idx = 0 /\ log = <<>> /\ printed = <<>> /\ kwReads = 0

\* lines 98-100
AbortNoRssFile ==
    /\ pc = "start"
    /\ ~isfile(rssFile)
    /\ pc' = "aborted"
    /\ printed' = Append(printed, "url file not found")
    /\ UNCHANGED <<filterVars, rssFile, kwFile, clock, outFile, kwList,
                   yesterday_midnight, now, idx, log, kwReads>>

\* lines 102-105
AbortNoKeywords ==
    /\ pc = "start"
    /\ isfile(rssFile)
    /\ LET r == read_keywords(kwFile) IN
        /\ NoKeywords(r.keywords)
        /\ kwList' = r.keywords
        /\ printed' = printed \o r.printed \o <<"no keywords">>
    /\ kwReads' = kwReads + 1
    /\ pc' = "aborted"
    /\ UNCHANGED <<filterVars, rssFile, kwFile, clock, outFile,
                   yesterday_midnight, now, idx, log>>

\* lines 102-116: the checks pass, the report is created with its header and
\* the URL list is opened
BeginRun ==
    /\ pc = "start"
    /\ isfile(rssFile)
    /\ LET r == read_keywords(kwFile) IN
        /\ ~NoKeywords(r.keywords)
        /\ kwList' = r.keywords
        /\ IF CanOpen(rssFile)
           THEN /\ pc' = "loop"
                /\ printed' = printed \o r.printed
           ELSE /\ pc' = "done"
                /\ printed' = printed \o r.printed \o <<"url file read error">>
    /\ kwReads' = kwReads + 1
    /\ now' = clock
    /\ yesterday_midnight' = YesterdayMidnight(clock)
    /\ outFile' = {Header}
    /\ idx' = 1
    /\ UNCHANGED <<filterVars, rssFile, kwFile, clock, log>>

\* lines 117-131: one line of the URL list
ProcessUrl ==
    /\ pc = "loop"
    /\ idx <= Len(Val(rssFile).lines)
    /\ LET url == strip(Val(rssFile).lines[idx])
           fetched == get_rss_feed(url)
           result == IF fetched.raised # "" THEN Raised(fetched.raised, <<>>)
                     ELSE get_recent_entries(Val(fetched.feed), yesterday_midnight, kwList)
           written == IF result.raised # "" THEN <<>> ELSE Block(url, result.entries)
       IN /\ outFile' = {Val(outFile) \o written}
          /\ printed' = IF result.raised # ""
                        THEN printed \o <<"Falha ao processar URL", result.raised>>
                        ELSE printed
          /\ log' = Append(log, [url |-> url, feed |-> fetched.feed,
                                 raised |-> result.raised,
                                 entries |-> result.entries, written |-> written])
          /\ pc' = IF result.raised # "" THEN AfterUrl(result.raised) ELSE "loop"
    /\ idx' = idx + 1
    /\ UNCHANGED <<filterVars, rssFile, kwFile, clock, kwList,
                   yesterday_midnight, now, kwReads>>

\* the URL list is exhausted: both files are closed
Finish ==
    /\ pc = "loop"
    /\ idx > Len(Val(rssFile).lines)
    /\ pc' = "done"
    /\ UNCHANGED <<filterVars, rssFile, kwFile, clock, outFile, kwList,
                   yesterday_midnight, now, idx, log, printed, kwReads>>

Next ==
    \/ AbortNoRssFile
    \/ AbortNoKeywords
    \/ BeginRun
    \/ ProcessUrl
    \/ Finish

Spec == Init /\ [][Next]_vars

\* ================================================================== claims
Range(seq) == {seq[i] : i \in 1..Len(seq)}
Count(seq, Test(_)) == Cardinality({i \in 1..Len(seq) : Test(seq[i])})

\* ------------------------------------------------- get_recent_entries (FilterSpec)
Applied == fResult # {}
InResult(t) == t \in Range(Val(fResult).entries)

\* the MatchedEntry the specification describes for an entry: its title, its
\* link and its cleaned summary, 'No summary available' when it has none
MatchedEntry(entry) ==
    <<Val(entry.title), Val(entry.link),
      clean_html(IF Has(entry.summary) THEN Val(entry.summary) ELSE NoSummary)>>

\* the search buffer the specification describes: title and summary, the
\* summary empty when absent
SearchBuffer(entry) ==
    Val(entry.title) \o <<" ">>
        \o (IF Has(entry.summary) THEN Val(entry.summary) ELSE <<>>)
KeywordOccurs(entry, keywords) ==
    \E k \in 1..Len(keywords) : Occurs(keywords[k], SearchBuffer(entry))

\* feeds in which only the summary of an entry may be missing, filtered with
\* valid patterns
OnlySummaryMayLack(feed, keywords) ==
    /\ \A j \in 1..Len(feed) : Has(feed[j].title) /\ Has(feed[j].link)
    /\ \A k \in 1..Len(keywords) : ValidPattern(keywords[k])

\* C4: get_recent_entries never includes an entry without a parsed publish
\* timestamp, whatever its title and summary contain: every entry of the result
\* comes from an entry of the feed that carries a timestamp, the result is no
\* longer than the number of such entries, and a feed whose entries all lack a
\* timestamp gives the empty result.
C4_UndatedNeverIncluded ==
    Applied =>
      /\ \A t \in Range(Val(fResult).entries) :
            \E j \in 1..Len(fFeed) :
               /\ HasTimestamp(fFeed[j]) /\ Has(fFeed[j].title)
               /\ Has(fFeed[j].link) /\ MatchedEntry(fFeed[j]) = t
      /\ Len(Val(fResult).entries) <= Count(fFeed, HasTimestamp)
      /\ (Count(fFeed, HasTimestamp) = 0 => Val(fResult) = Returned(<<>>))

\* C4, its case: a complete entry whose title matches a keyword but that has no
\* timestamp stands beside an included entry, and is left out.
C4_Witness ==
    /\ Applied /\ Len(fFeed) = 2 /\ fKeywords = <<<<"a">>>>
    /\ ~HasTimestamp(fFeed[1]) /\ fFeed[1].title = {<<"a">>}
    /\ Has(fFeed[1].summary) /\ Has(fFeed[1].link)
    /\ HasTimestamp(fFeed[2]) /\ fFeed[2].title = {<<"b">>}
    /\ Val(fResult).raised = "" /\ Len(Val(fResult).entries) = 1

\* C5: the lower bound is inclusive: no entry published strictly before the
\* threshold is in the result, and an entry published exactly at the threshold
\* in whose title and summary a keyword occurs is in the result. Stated on feeds
\* whose entries all carry a title and a link, with valid patterns.
C5_InclusiveLowerBound ==
    (Applied /\ OnlySummaryMayLack(fFeed, fKeywords)) =>
      /\ Len(Val(fResult).entries) <=
            Cardinality({j \in 1..Len(fFeed) :
                            /\ HasTimestamp(fFeed[j])
                            /\ Val(fFeed[j].published_parsed) >= fStart})
      /\ \A j \in 1..Len(fFeed) :
            (/\ HasTimestamp(fFeed[j])
             /\ Val(fFeed[j].published_parsed) = fStart
             /\ KeywordOccurs(fFeed[j], fKeywords))
            => InResult(MatchedEntry(fFeed[j]))

\* C6: every entry published at or after the threshold in whose concatenated
\* title and summary a keyword occurs is in the result exactly once, in the
\* order of the feed. Stated on feeds whose entries all carry a title and a
\* link, with valid patterns.
Qualifies(entry) ==
    /\ HasTimestamp(entry)
    /\ Val(entry.published_parsed) >= fStart
    /\ KeywordOccurs(entry, fKeywords)
QualifyingEntries ==
    LET q == SelectSeq(fFeed, Qualifies)
    IN [i \in 1..Len(q) |-> MatchedEntry(q[i])]
IsQualifyingEntry(t) == t \in Range(QualifyingEntries)
C6_MatchesOnceInOrder ==
    (Applied /\ OnlySummaryMayLack(fFeed, fKeywords)) =>
      SelectSeq(Val(fResult).entries, IsQualifyingEntry) = QualifyingEntries

\* C7: an entry without a summary is handled without error: the call returns,
\* and such an entry, when recent and matched by a keyword through its title,
\* is stored with the summary 'No summary available'. Stated on feeds whose
\* entries all carry a title and a link, with valid patterns.
C7_MissingSummaryHandled ==
    (Applied /\ OnlySummaryMayLack(fFeed, fKeywords)) =>
      /\ Val(fResult).raised = ""
      /\ \A j \in 1..Len(fFeed) :
            (/\ ~Has(fFeed[j].summary)
             /\ HasTimestamp(fFeed[j])
             /\ Val(fFeed[j].published_parsed) >= fStart
             /\ \E k \in 1..Len(fKeywords) :
                   Occurs(fKeywords[k], Val(fFeed[j].title)))
            => InResult(<<Val(fFeed[j].title), Val(fFeed[j].link), NoSummary>>)

\* ---------------------------------------------------- process_rss_file (Spec)
UrlListRead == Has(rssFile) /\ Val(rssFile).readable
Failed(record) == record.raised # ""
IsFailureReport(message) == message = "Falha ao processar URL"

\* C1: once the checks have passed and the URL list is open, every line of the
\* list is attempted exactly once in file order; a fetch or filter failure is
\* reported and the loop goes on, so the run ends only after the last line.
C1_EveryUrlAttempted ==
    (pc \in {"loop", "done"} /\ UrlListRead) =>
      /\ Len(log) = idx - 1
      /\ Len(log) <= Len(Val(rssFile).lines)
      /\ \A i \in 1..Len(log) : log[i].url = strip(Val(rssFile).lines[i])
      /\ Count(printed, IsFailureReport) = Count(log, Failed)
      /\ (pc = "done" => Len(log) = Len(Val(rssFile).lines))

\* C1, its case: a run that ended after a URL failed and a later URL of the
\* list was fetched, filtered and written.
C1_Witness ==
    /\ pc = "done" /\ Len(log) = 2
    /\ log[1].raised # "" /\ log[2].raised = "" /\ log[2].written # <<>>

\* C2: a keyword file that is missing, unreadable or empty aborts the run: no
\* step fetches a feed, creates the report or writes to it.
ZeroKeywords ==
    \/ ~Has(kwFile) \/ ~Val(kwFile).readable \/ Val(kwFile).lines = <<>>
C2_NoKeywordsNoOutput ==
    [][ZeroKeywords =>
         (outFile' = outFile /\ log' = <<>> /\ pc' \in {"start", "aborted"})]_vars

\* C2, its case: the URL list exists, the keyword file gave no keyword, the run
\* has aborted and no report exists.
C2_Witness ==
    /\ pc = "aborted" /\ Has(rssFile) /\ ZeroKeywords /\ kwReads = 1
    /\ outFile = {} /\ log = <<>>

\* C3: a missing URL list aborts the run before any work: no step reads the
\* keyword file, fetches a feed, creates the report or writes to it.
C3_NoUrlListNoWork ==
    [][~Has(rssFile) =>
         (kwReads' = 0 /\ log' = <<>> /\ outFile' = outFile
          /\ pc' \in {"start", "aborted"})]_vars

\* C3, its case: the run has aborted on the missing URL list although the
\* keyword file holds keywords.
C3_Witness ==
    /\ pc = "aborted" /\ ~Has(rssFile)
    /\ Has(kwFile) /\ Val(kwFile).readable /\ Val(kwFile).lines # <<>>
    /\ kwReads = 0 /\ outFile = {}

\* C8: every entry written to the report was published in the window
\* [previous midnight, start of the run).
HasSourceInWindow(record, t) ==
    \E j \in 1..Len(Val(record.feed)) :
       LET entry == Val(record.feed)[j] IN
       /\ HasTimestamp(entry) /\ Has(entry.title) /\ Has(entry.link)
       /\ MatchedEntry(entry) = t
       /\ Val(entry.published_parsed) >= YesterdayMidnight(now)
       /\ Val(entry.published_parsed) < now
C8_WindowUntilNow ==
    \A i \in 1..Len(log) :
       log[i].written # <<>> =>
          \A t \in Range(log[i].entries) : HasSourceInWindow(log[i], t)

\* C9: at the end of a run the 'URL:' lines of the report are, in order, the
\* URLs whose fetch and filter succeeded with at least one matched entry; a
\* feed without a match and a feed that failed leave no block.
UrlLines(lines) ==
    LET IsUrlLine(l) == l.label = "URL: "
        u == SelectSeq(lines, IsUrlLine)
    IN [i \in 1..Len(u) |-> u[i].text]
SucceededWithMatch(record) == record.raised = "" /\ record.entries # <<>>
C9_BlocksOnlyForMatches ==
    pc = "done" =>
      LET ok == SelectSeq(log, SucceededWithMatch)
      IN UrlLines(Val(outFile)) = [i \in 1..Len(ok) |-> ok[i].url]

\* C9, its case: the first URL answered 404, the second had matches, a third
\* attempt is not needed: the report holds the second feed's block alone.
C9_Witness ==
    /\ pc = "done" /\ Len(log) = 2
    /\ log[1].url = <<"u404">> /\ log[1].raised # ""
    /\ log[2].raised = "" /\ log[2].entries # <<>>
    /\ UrlLines(Val(outFile)) = <<log[2].url>>

\* C10: a feed on which filtering raises (a recent entry without title or
\* summary, an invalid pattern reached, a matched entry without link) leaves
\* nothing in the report, also when earlier entries of the feed had matched;
\* what a feed leaves is nothing or its whole block, and the report is the
\* header followed by what the feeds left.
RECURSIVE FilterMustRaise(_, _, _)
FilterMustRaise(entries, start_time, keywords) ==
    /\ entries # <<>>
    /\ LET entry == Head(entries) IN
       IF ~(HasTimestamp(entry) /\ Val(entry.published_parsed) >= start_time)
         THEN FilterMustRaise(Tail(entries), start_time, keywords)
       ELSE \/ ~Has(entry.title) \/ ~Has(entry.summary)
            \/ AnyMatch(keywords, Val(entry.title) \o <<" ">> \o Val(entry.summary))
                  = "error"
            \/ /\ AnyMatch(keywords, Val(entry.title) \o <<" ">> \o Val(entry.summary))
                     = "match"
               /\ ~Has(entry.link)
            \/ FilterMustRaise(Tail(entries), start_time, keywords)
RECURSIVE AllWritten(_)
AllWritten(records) ==
    IF records = <<>> THEN <<>>
    ELSE Head(records).written \o AllWritten(Tail(records))
C10_FeedAllOrNothing ==
    pc \in {"loop", "done"} =>
      /\ \A i \in 1..Len(log) :
            /\ (Has(log[i].feed)
                /\ FilterMustRaise(Val(log[i].feed), yesterday_midnight, kwList))
               => log[i].written = <<>>
            /\ log[i].written \in
                  {<<>>, <<Line("URL: ", log[i].url)>> \o EntryLines(log[i].entries)}
      /\ Val(outFile) = Header \o AllWritten(log)

\* C10, its case: the first entry of a feed matched, a later entry raised, and
\* the feed left nothing in the report.
C10_Witness ==
    \E i \in 1..Len(log) :
       /\ Has(log[i].feed) /\ Len(Val(log[i].feed)) = 2
       /\ LET first == Val(log[i].feed)[1] IN
          /\ IsCandidate(first, yesterday_midnight)
          /\ Has(first.title) /\ Has(first.summary) /\ Has(first.link)
          /\ AnyMatch(kwList, Val(first.title) \o <<" ">> \o Val(first.summary))
                = "match"
       /\ log[i].raised = "AttributeError"
       /\ log[i].written = <<>>

====
